---- MODULE Spec2Model ----
(***************************************************************************)
(* Model of final_map.py: the load_data pipeline (cleaning, two left       *)
(* merges, group-by aggregation) and the create_map view (year scope,      *)
(* city filter / top-N truncation, ranking, fare defaulting), driven by    *)
(* the three sidebar select boxes.                                         *)
(*                                                                         *)
(* Representation.  A CSV cell is a Text: a sequence of one-character      *)
(* strings.  A nullable value is Null (the empty sequence, pandas NaN) or  *)
(* a non-empty sequence: a number is the reduced fraction <<n, d>>, a      *)
(* coordinate or a city name is the one-element sequence <<v>>.  A data    *)
(* frame is a sequence of records, in row order.                           *)
(***************************************************************************)
EXTENDS Integers, Sequences, FiniteSets

VARIABLES
    csv_obs,        \* Summary_By_Origin_Airport.csv: rows [code, city, year, total]
    csv_loc,        \* airports_location.csv: rows [code, latitude, longitude]
    csv_fare,       \* AverageFare_USA.csv: rows [code, Year, fare]
    df,             \* module-level df (line 65)
    annual_data,    \* module-level annual_data (line 65)
    selected_year,  \* sidebar select box, line 70
    selected_topn,  \* sidebar select box, line 73
    selected_city,  \* sidebar select box, line 76
    filtered_data,  \* the data frame returned by create_map (line 166)
    pc              \* "start", "loaded" (load_data cached), "ready" (a run rendered)

vars == <<csv_obs, csv_loc, csv_fare, df, annual_data,
          selected_year, selected_topn, selected_city, filtered_data, pc>>

(***************************************************************************)
(* Values                                                                  *)
(***************************************************************************)
Null == <<>>

Digit == {"0", "1", "2", "3", "4", "5", "6", "7", "8", "9"}

DigitVal(c) ==
    CASE c = "0" -> 0 [] c = "1" -> 1 [] c = "2" -> 2 [] c = "3" -> 3
      [] c = "4" -> 4 [] c = "5" -> 5 [] c = "6" -> 6 [] c = "7" -> 7
      [] c = "8" -> 8 [] c = "9" -> 9

DigitChar(n) ==
    CASE n = 0 -> "0" [] n = 1 -> "1" [] n = 2 -> "2" [] n = 3 -> "3"
      [] n = 4 -> "4" [] n = 5 -> "5" [] n = 6 -> "6" [] n = 7 -> "7"
      [] n = 8 -> "8" [] n = 9 -> "9"

RECURSIVE GCD(_, _)
GCD(a, b) == IF b = 0 THEN a ELSE GCD(b, a % b)

\* the fraction n/d (d > 0, n >= 0) in lowest terms
Frac(n, d) == LET g == GCD(n, d) IN <<n \div g, d \div g>>

RatAdd(x, y) == Frac(x[1] * y[2] + y[1] * x[2], x[2] * y[2])

RatLess(x, y) == x[1] * y[2] < y[1] * x[2]

Zero == Frac(0, 1)

RECURSIVE Pow10(_)
Pow10(k) == IF k = 0 THEN 1 ELSE 10 * Pow10(k - 1)

AllDigits(t) == \A i \in 1..Len(t) : t[i] \in Digit

RECURSIVE DigitsToNat(_)
DigitsToNat(t) ==
    IF t = <<>> THEN 0
    ELSE 10 * DigitsToNat(SubSeq(t, 1, Len(t) - 1)) + DigitVal(t[Len(t)])

\* str(n) of a non-negative integer
RECURSIVE NatToText(_)
NatToText(n) ==
    IF n < 10 THEN <<DigitChar(n)>>
    ELSE NatToText(n \div 10) \o <<DigitChar(n % 10)>>

\* Series.str.replace(r'[...]', '', regex=True): delete every character of a class
StrDelete(t, class) == SelectSeq(t, LAMBDA c : c \notin class)

\* pd.to_numeric(..., errors='coerce') on texts made of digits, '.', and
\* other printable characters: an unsigned decimal literal parses, anything
\* else (the empty cell included) is NaN
to_numeric(t) ==
    LET dots == {i \in 1..Len(t) : t[i] = "."} IN
    IF dots = {} THEN
        IF Len(t) > 0 /\ AllDigits(t) THEN Frac(DigitsToNat(t), 1) ELSE Null
    ELSE IF Cardinality(dots) = 1 THEN
        LET p  == CHOOSE i \in dots : TRUE
            ip == SubSeq(t, 1, p - 1)
            fp == SubSeq(t, p + 1, Len(t))
        IN  IF AllDigits(ip) /\ AllDigits(fp) /\ Len(ip) + Len(fp) > 0
            THEN Frac(DigitsToNat(ip) * Pow10(Len(fp)) + DigitsToNat(fp), Pow10(Len(fp)))
            ELSE Null
    ELSE Null

\* lexicographic order of two group keys (tuples of integers; a city name
\* stands in a key as its CityIndex)
KeyLess(a, b) ==
    \E i \in 1..Len(a) : (\A j \in 1..(i - 1) : a[j] = b[j]) /\ a[i] < b[i]

\* the groups of a groupby(sort=True), in key order
RECURSIVE InsertKey(_, _)
InsertKey(sorted, k) ==
    IF sorted = <<>> THEN <<k>>
    ELSE IF KeyLess(k, Head(sorted)) THEN <<k>> \o sorted
    ELSE <<Head(sorted)>> \o InsertKey(Tail(sorted), k)

RECURSIVE SortKeys(_)
SortKeys(S) ==
    IF S = {} THEN <<>>
    ELSE LET k == CHOOSE x \in S : TRUE IN InsertKey(SortKeys(S \ {k}), k)

\* sum / mean of a data-frame column, NaN skipped (pandas skipna=True):
\* the sum of no value is 0, the mean of no value is NaN
RECURSIVE ColSum(_)
ColSum(col) ==
    IF col = <<>> THEN Zero
    ELSE IF Head(col) = Null THEN ColSum(Tail(col))
    ELSE RatAdd(Head(col), ColSum(Tail(col)))

ColMean(col) ==
    LET vals == SelectSeq(col, LAMBDA v : v # Null) IN
    IF vals = <<>> THEN Null
    ELSE LET s == ColSum(vals) IN Frac(s[1], s[2] * Len(vals))

\* the 'Total Passengers' and 'Avg Fare' columns of a frame
TotalColumn(frame) == [i \in 1..Len(frame) |-> frame[i].total]

FareColumn(frame) == [i \in 1..Len(frame) |-> frame[i].AvgFare]

RECURSIVE Concat(_)
Concat(ss) == IF ss = <<>> THEN <<>> ELSE Head(ss) \o Concat(Tail(ss))

(***************************************************************************)
(* load_data                                                               *)
(***************************************************************************)
\* Series.str.extract(r'(\d{4})')[0]: the leftmost four consecutive digits
ExtractYear(t) ==
    LET hits == {i \in 1..(Len(t) - 3) : AllDigits(SubSeq(t, i, i + 3))} IN
    IF hits = {} THEN Null
    ELSE LET i == CHOOSE h \in hits : \A k \in hits : h <= k IN SubSeq(t, i, i + 3)

\* line 33: the Year column after extraction and to_numeric (NaN or a number)
YearValue(t) ==
    LET m == ExtractYear(t) IN IF m = Null THEN Null ELSE to_numeric(m)

NanText == <<"n", "a", "n">>

\* lines 11 and 33: df['Year'].astype(str).  read_csv types the column from
\* the cells of the file: one cell that is no number makes it text (cells
\* kept as written, an empty cell NaN); integer cells alone make it int64;
\* integer and empty cells make it float64.  astype(str) then prints an
\* integer without leading zeros, a float with '.0', NaN as 'nan'
YearAsStr(obs) ==
    LET cell(i) == obs[i].year
        rows    == 1..Len(obs)
        text    == \E i \in rows : cell(i) # <<>> /\ ~AllDigits(cell(i))
        float   == \E i \in rows : cell(i) = <<>>
    IN  [i \in rows |->
            IF cell(i) = <<>> THEN NanText
            ELSE IF text THEN cell(i)
            ELSE IF float THEN NatToText(DigitsToNat(cell(i))) \o <<".", "0">>
            ELSE NatToText(DigitsToNat(cell(i)))]

\* lines 27-35: numeric coercion of Total Passengers, year extraction,
\* dropna(subset=['Year']), astype(int)
CleanObservations(obs) ==
    LET year  == YearAsStr(obs)
        typed == [i \in 1..Len(obs) |->
                    [code  |-> obs[i].code,
                     city  |-> obs[i].city,
                     Year  |-> YearValue(year[i]),
                     total |-> to_numeric(StrDelete(obs[i].total, {",", "\""}))]]
        kept  == SelectSeq(typed, LAMBDA r : r.Year # Null)
    IN  [i \in 1..Len(kept) |-> [kept[i] EXCEPT !.Year = @[1]]]

\* lines 15-25: the fare table with Avg Fare coerced
CleanFare(fare) ==
    [i \in 1..Len(fare) |->
        [code    |-> fare[i].code,
         Year    |-> fare[i].Year,
         AvgFare |-> to_numeric(StrDelete(fare[i].fare, {"$", ","}))]]

\* mutation of DropUnlocated: missing coordinates defaulted to 0, not dropped
DefaultUnlocated(frame) ==
    [i \in 1..Len(frame) |->
        [frame[i] EXCEPT !.latitude = IF @ = Null THEN <<0>> ELSE @,
                         !.longitude = IF @ = Null THEN <<0>> ELSE @]]

\* .dropna(subset=['latitude', 'longitude']) of line 42
DropUnlocated(frame) ==
    SelectSeq(frame, LAMBDA r : r.latitude # Null /\ r.longitude # Null)

\* lines 37-42: left merge on the airport code, one output row per matching
\* location row (none: one row with NaN coordinates), then the dropna
MergeLocations(obs, loc) ==
    LET match(r) == SelectSeq(loc, LAMBDA l : l.code = r.code)
        out(r)   ==
            IF match(r) = <<>>
            THEN << [code |-> r.code, city |-> r.city, Year |-> r.Year,
                     total |-> r.total, latitude |-> Null, longitude |-> Null] >>
            ELSE [j \in 1..Len(match(r)) |->
                    [code |-> r.code, city |-> r.city, Year |-> r.Year,
                     total |-> r.total, latitude |-> match(r)[j].latitude,
                     longitude |-> match(r)[j].longitude]]
    IN  DropUnlocated(Concat([i \in 1..Len(obs) |-> out(obs[i])]))

\* lines 44-48: left merge on (airport code, Year), one output row per
\* matching fare row (none: one row with NaN fare)
MergeFares(frame, fare) ==
    LET match(r) == SelectSeq(fare, LAMBDA f : f.code = r.code /\ f.Year = r.Year)
        with(r, a) == [code |-> r.code, city |-> r.city, Year |-> r.Year,
                       total |-> r.total, latitude |-> r.latitude,
                       longitude |-> r.longitude, AvgFare |-> a]
        out(r) ==
            IF match(r) = <<>> THEN << with(r, Null) >>
            ELSE [j \in 1..Len(match(r)) |-> with(r, match(r)[j].AvgFare)]
    IN  Concat([i \in 1..Len(frame) |-> out(frame[i])])

\* the city names of the data, in Python's string order
CityNames == <<"Atlanta", "Boston", "Chicago", "Denver", "Miami", "Phoenix", "Seattle">>

CityIndex(c) == CHOOSE i \in 1..Len(CityNames) : CityNames[i] = c

AnnualKey(r) == <<r.Year, CityIndex(r.city[1]), r.latitude[1], r.longitude[1]>>

\* lines 50-55: groupby(['Year', 'Origin City Name', 'latitude', 'longitude'])
\* .agg(sum, mean).reset_index(); rows with a NaN key are left out
\* (groupby dropna=True), groups come out in key order
GroupAnnual(frame) ==
    LET ok   == SelectSeq(frame, LAMBDA r : r.city # Null /\ r.latitude # Null
                                            /\ r.longitude # Null)
        keys == SortKeys({AnnualKey(ok[i]) : i \in 1..Len(ok)})
        grp(k) == SelectSeq(ok, LAMBDA r : AnnualKey(r) = k)
    IN  [i \in 1..Len(keys) |->
            [Year      |-> keys[i][1],
             city      |-> CityNames[keys[i][2]],
             latitude  |-> <<keys[i][3]>>,
             longitude |-> <<keys[i][4]>>,
             total     |-> ColSum(TotalColumn(grp(keys[i]))),
             AvgFare   |-> ColMean(FareColumn(grp(keys[i])))]]

\* load_data(): returns (df, annual_data)
load_data_df(obs, loc, fare) ==
    MergeFares(MergeLocations(CleanObservations(obs), loc), CleanFare(fare))

load_data_annual(obs, loc, fare) == GroupAnnual(load_data_df(obs, loc, fare))

(***************************************************************************)
(* Sidebar options                                                         *)
(***************************************************************************)
AllYears == <<"A", "l", "l", " ", "Y", "e", "a", "r", "s">>

AllCitiesText == <<"A", "l", "l", " ", "C", "i", "t", "i", "e", "s">>

TopText == <<"T", "o", "p">>

\* line 72
topn_options ==
    << AllCitiesText,
       TopText \o <<" ", "5">>,
       TopText \o <<" ", "1", "0">>,
       TopText \o <<" ", "1", "5">>,
       TopText \o <<" ", "2", "0">>,
       TopText \o <<" ", "5", "0">> >>

\* line 69: 'All Years' and the years of df as strings
year_options(frame) ==
    {AllYears} \cup {NatToText(frame[i].Year) : i \in 1..Len(frame)}

\* line 75: 'All Cities' and the city names of df
city_options(frame) ==
    {"All Cities"} \cup {frame[i].city[1] : i \in {j \in 1..Len(frame) : frame[j].city # Null}}

StartsWith(t, prefix) ==
    Len(t) >= Len(prefix) /\ SubSeq(t, 1, Len(prefix)) = prefix

\* str.replace(old, ''): every non-overlapping occurrence, left to right
RECURSIVE StrRemove(_, _)
StrRemove(t, old) ==
    IF t = <<>> THEN <<>>
    ELSE IF StartsWith(t, old) THEN StrRemove(SubSeq(t, Len(old) + 1, Len(t)), old)
    ELSE <<Head(t)>> \o StrRemove(Tail(t), old)

\* str.strip(): leading and trailing blanks removed
RECURSIVE StrStrip(_)
StrStrip(t) ==
    IF t = <<>> THEN <<>>
    ELSE IF Head(t) = " " THEN StrStrip(Tail(t))
    ELSE IF t[Len(t)] = " " THEN StrStrip(SubSeq(t, 1, Len(t) - 1))
    ELSE t

\* lines 60-63: None (Null) or the number after "Top", as <<n>>
parse_topn(value) ==
    IF StartsWith(value, TopText)
    THEN <<DigitsToNat(StrStrip(StrRemove(value, TopText)))>>
    ELSE Null

(***************************************************************************)
(* create_map                                                              *)
(***************************************************************************)
\* line 98
FareDefault == 100

\* line 81: the rows of one year (a copy; the Year column stays)
YearRows(annual, year) ==
    LET rows == SelectSeq(annual, LAMBDA r : r.Year = year) IN
    [i \in 1..Len(rows) |->
        [Year |-> rows[i].Year, city |-> rows[i].city, latitude |-> rows[i].latitude,
         longitude |-> rows[i].longitude, total |-> rows[i].total,
         AvgFare |-> rows[i].AvgFare]]

CityKey(r) == <<CityIndex(r.city), r.latitude[1], r.longitude[1]>>

\* mutation of AllYearsRows: the passenger totals averaged over the years
AllYearsMeanRows(annual) ==
    LET keys == SortKeys({CityKey(annual[i]) : i \in 1..Len(annual)})
        grp(k) == SelectSeq(annual, LAMBDA r : CityKey(r) = k)
    IN  [i \in 1..Len(keys) |->
            [city      |-> CityNames[keys[i][1]],
             latitude  |-> <<keys[i][2]>>,
             longitude |-> <<keys[i][3]>>,
             total     |-> ColMean(TotalColumn(grp(keys[i]))),
             AvgFare   |-> ColMean(FareColumn(grp(keys[i])))]]

\* lines 83-88: groupby(['Origin City Name', 'latitude', 'longitude'])
\* .agg(sum, mean).reset_index() over all years (no Year column)
AllYearsRows(annual) ==
    LET keys == SortKeys({CityKey(annual[i]) : i \in 1..Len(annual)})
        grp(k) == SelectSeq(annual, LAMBDA r : CityKey(r) = k)
    IN  [i \in 1..Len(keys) |->
            [city      |-> CityNames[keys[i][1]],
             latitude  |-> <<keys[i][2]>>,
             longitude |-> <<keys[i][3]>>,
             total     |-> ColSum(TotalColumn(grp(keys[i]))),
             AvgFare   |-> ColMean(FareColumn(grp(keys[i])))]]

\* line 91: data[data['Origin City Name'] == selected_city], row order kept
CityRows(data, city) == SelectSeq(data, LAMBDA r : r.city = city)

\* sort_values('Total Passengers', ascending=False): descending, equal
\* totals in their input order (numpy's default sort is an insertion sort
\* for the frame sizes of this model)
RECURSIVE InsertDesc(_, _)
InsertDesc(sorted, r) ==
    IF sorted = <<>> THEN <<r>>
    ELSE IF RatLess(Head(sorted).total, r.total) THEN <<r>> \o sorted
    ELSE <<Head(sorted)>> \o InsertDesc(Tail(sorted), r)

RECURSIVE SortDesc(_)
SortDesc(data) ==
    IF data = <<>> THEN <<>>
    ELSE InsertDesc(SortDesc(SubSeq(data, 1, Len(data) - 1)), data[Len(data)])

\* DataFrame.head(n)
DataHead(data, n) == SubSeq(data, 1, IF n < Len(data) THEN n ELSE Len(data))

\* mutation of TopRows: head(top_n) taken before the sort
HeadThenSort(data, n) == SortDesc(DataHead(data, n))

\* line 93: sort_values(...).head(top_n)
TopRows(data, n) == DataHead(SortDesc(data), n)

\* mutation of RankMin: rank(method='dense'), one more than the number of
\* distinct greater values
RankDense(data) ==
    [i \in 1..Len(data) |->
        1 + Cardinality({data[j].total : j \in {k \in 1..Len(data) :
                                                  RatLess(data[i].total, data[k].total)}})]

\* line 97: Series.rank(method='min', ascending=False).astype(int): the
\* values are ordered descending and every member of a group of equal
\* values takes the lowest position of its group
RankMin(data) ==
    LET ordered == SortDesc(data)
        pos(v)  == CHOOSE p \in 1..Len(ordered) :
                      /\ ordered[p].total = v
                      /\ \A q \in 1..(p - 1) : ordered[q].total # v
    IN  [i \in 1..Len(data) |-> pos(data[i].total)]

\* line 98: Series.fillna(100)
FillFare(fare) == IF fare = Null THEN Frac(FareDefault, 1) ELSE fare

\* lines 97-98: the Rank column added, the Avg Fare column filled
WithRankAndFare(data) ==
    LET rank == RankMin(data) IN
    [i \in 1..Len(data) |->
        [f \in (DOMAIN data[i]) \cup {"Rank"} |->
            IF f = "Rank" THEN rank[i]
            ELSE IF f = "AvgFare" THEN FillFare(data[i].AvgFare)
            ELSE data[i][f]]]

\* lines 80-88: the frame of the year scope; None and '' are falsy
ScopeRows(annual, year) ==
    IF year # Null THEN YearRows(annual, DigitsToNat(year)) ELSE AllYearsRows(annual)

\* mutation of FilterRows: the city branch left out
FilterRowsNoCity(data, top_n, city) ==
    IF top_n # Null /\ top_n[1] # 0 THEN DataHead(SortDesc(data), top_n[1])
    ELSE SortDesc(data)

\* lines 90-95: city filter, else top-N, else the whole frame sorted;
\* None and 0 are falsy for top_n
FilterRows(data, top_n, city) ==
    IF city # "" /\ city # "All Cities" THEN CityRows(data, city)
    ELSE IF top_n # Null /\ top_n[1] # 0 THEN TopRows(data, top_n[1])
    ELSE SortDesc(data)

\* create_map(selected_year, top_n, selected_city): the returned data frame
create_map(annual, year, top_n, city) ==
    WithRankAndFare(FilterRows(ScopeRows(annual, year), top_n, city))

\* mutation of annual_after_create_map: fillna(100) applied to the cached frame
annual_filled_in_place(annual) ==
    [i \in 1..Len(annual) |->
        [annual[i] EXCEPT !.AvgFare = IF @ = Null THEN Frac(FareDefault, 1) ELSE @]]

\* what a call of create_map leaves in the module-level annual_data: lines
\* 81 and 83 give create_map a frame of its own, and lines 91-98 assign to
\* that frame only
annual_after_create_map(annual) == annual

\* lines 164-165
year_val(year) == IF year = AllYears THEN Null ELSE year

topn_val(topn, city) == IF city = "All Cities" THEN parse_topn(topn) ELSE Null

\* line 166: filtered_data of one run of the script
script_view(annual, year, topn, city) ==
    create_map(annual, year_val(year), topn_val(topn, city), city)

(***************************************************************************)
(* Input files                                                             *)
(***************************************************************************)
Y2020 == <<"2", "0", "2", "0">>

FY2021 == <<"F", "Y", " ", "2", "0", "2", "1">>

NoYear == <<"n", "/", "a">>

Pax200 == <<"2", "0", "0">>

Pax1000 == <<"1", ",", "0", "0", "0">>

Pax2000 == <<"2", ",", "0", "0", "0">>

Pax3000 == <<"\"", "3", ",", "0", "0", "0", "\"">>

Fare250 == <<"$", "2", "5", "0", ".", "5", "0">>

Fare300 == <<"$", "3", "0", "0">>

Fare1200 == <<"$", "1", ",", "2", "0", "0">>

FareNA == <<"N", "/", "A">>

\* the sequences over S of length at most n
SeqsUpTo(S, n) == UNION {[1..k -> S] : k \in 0..n}

Obs(code, city, year, total) ==
    [code |-> code, city |-> city, year |-> year, total |-> total]

Loc(code, lat, lon) == [code |-> code, latitude |-> lat, longitude |-> lon]

Fare(code, year, fare) == [code |-> code, Year |-> year, fare |-> fare]

\* rows of small files: two airports of one city, decorated and missing
\* years, a missing city name, a location without longitude, a fare that
\* does not parse
MaxObs == 2

MaxLoc == 2

MaxFare == 2

ObsRows ==
    { Obs("ORD", <<"Chicago">>, Y2020, Pax1000), Obs("MDW", <<"Chicago">>, Y2020, Pax200),
      Obs("ORD", <<"Chicago">>, FY2021, Pax200), Obs("MDW", <<"Chicago">>, FY2021, Pax1000),
      Obs("ORD", Null, Y2020, Pax200), Obs("MDW", <<"Chicago">>, NoYear, Pax200) }

LocRows ==
    {Loc("ORD", <<41>>, <<-87>>), Loc("MDW", <<41>>, <<-88>>), Loc("ORD", <<41>>, Null)}

FareRows == {Fare("ORD", 2020, Fare250), Fare("ORD", 2020, FareNA)}

\* one observation whose Year cell is any text of at most MaxYearLen characters
MaxYearLen == 5

YearAlphabet == {"0", "1", "2", "9", "x"}

InitFiles ==
    \/ /\ csv_obs \in SeqsUpTo(ObsRows, MaxObs)
       /\ csv_loc \in SeqsUpTo(LocRows, MaxLoc)
       /\ csv_fare \in SeqsUpTo(FareRows, MaxFare)
    \/ /\ \E y \in SeqsUpTo(YearAlphabet, MaxYearLen) :
              csv_obs = <<Obs("ORD", <<"Chicago">>, y, Pax1000)>>
       /\ csv_loc = <<Loc("ORD", <<41>>, <<-87>>)>>
       /\ csv_fare = <<>>

\* a wider data set: NWide airports (two of them in one city, or all of
\* them) observed in 2020 with any of two totals each, two of them observed
\* in 2021 as well, with fares for three of them
NWide == 6

WideCodes == <<"ORD", "MDW", "ATL", "BOS", "DEN", "MIA", "SEA", "PHX">>

WideCities ==
    <<"Chicago", "Chicago", "Atlanta", "Boston", "Denver", "Miami", "Seattle", "Phoenix">>

OneCity == [i \in 1..Len(WideCodes) |-> "Chicago"]

WideLat == <<41, 41, 33, 42, 39, 25, 47, 33>>

WideLon == <<-87, -88, -84, -71, -104, -80, -122, -112>>

WideLoc == [i \in 1..Len(WideCodes) |-> Loc(WideCodes[i], <<WideLat[i]>>, <<WideLon[i]>>)]

WideObs2021 ==
    << Obs("ORD", <<"Chicago">>, FY2021, Pax3000),
       Obs("ATL", <<"Atlanta">>, FY2021, Pax1000) >>

WideFares ==
    << Fare("ORD", 2020, Fare250), Fare("ORD", 2021, Fare300),
       Fare("ATL", 2020, Fare1200), Fare("BOS", 2020, FareNA) >>

InitWide ==
    /\ \E t \in [1..NWide -> {Pax1000, Pax2000}], city \in {WideCities, OneCity} :
          csv_obs = [i \in 1..NWide |-> Obs(WideCodes[i], <<city[i]>>, Y2020, t[i])]
                    \o WideObs2021
    /\ csv_loc = WideLoc
    /\ csv_fare = WideFares

(***************************************************************************)
(* The script                                                              *)
(***************************************************************************)
NotLoaded ==
    /\ df = <<>>
    /\ annual_data = <<>>
    /\ selected_year = AllYears
    /\ selected_topn = topn_options[1]
    /\ selected_city = "All Cities"
    /\ filtered_data = <<>>
    /\ pc = "start"

Init == InitWide /\ NotLoaded

InitLoad == InitFiles /\ NotLoaded

\* line 65, first run: load_data() computes and caches its result
LoadData ==
    /\ pc = "start"
    /\ df' = load_data_df(csv_obs, csv_loc, csv_fare)
    /\ annual_data' = load_data_annual(csv_obs, csv_loc, csv_fare)
    /\ pc' = "loaded"
    /\ UNCHANGED <<csv_obs, csv_loc, csv_fare, selected_year, selected_topn,
                   selected_city, filtered_data>>

\* line 75: sorted() of city names raises TypeError on a NaN name; the run
\* stops there and shows no view
OptionsBuilt == \A i \in 1..Len(df) : df[i].city # Null

\* lines 66-166 of one run of the script with the select boxes at (y, t, c)
Run(y, t, c) ==
    /\ OptionsBuilt
    /\ selected_year' = y
    /\ selected_topn' = t
    /\ selected_city' = c
    /\ filtered_data' = script_view(annual_data, y, t, c)
    /\ annual_data' = annual_after_create_map(annual_data)
    /\ pc' = "ready"
    /\ UNCHANGED <<csv_obs, csv_loc, csv_fare, df>>

\* the rest of the first run: every select box at its first option
FirstRun ==
    /\ pc = "loaded"
    /\ Run(AllYears, topn_options[1], "All Cities")

\* the user picks a year: the script runs again
SelectYear ==
    /\ pc = "ready"
    /\ \E y \in year_options(df) : Run(y, selected_topn, selected_city)

\* the user picks a top-N option: the script runs again
SelectTopN ==
    /\ pc = "ready"
    /\ \E i \in 1..Len(topn_options) : Run(selected_year, topn_options[i], selected_city)

\* the user picks a city: the script runs again
SelectCity ==
    /\ pc = "ready"
    /\ \E c \in city_options(df) : Run(selected_year, selected_topn, c)

Next == LoadData \/ FirstRun \/ SelectYear \/ SelectTopN \/ SelectCity

Spec == Init /\ [][Next]_vars

SpecLoad == InitLoad /\ [][LoadData]_vars

(***************************************************************************)
(* Properties                                                              *)
(***************************************************************************)
Rendered == pc = "ready"

ViewRows == 1..Len(filtered_data)

PlaceKey(r) == <<r.city, r.latitude, r.longitude>>

InScope(a, year) == year = AllYears \/ a.Year = DigitsToNat(year)

TopN == parse_topn(selected_topn)

\* C1: in every view returned by create_map the Rank of a row is one more
\* than the number of rows of that view with a strictly greater Total
\* Passengers, so tied rows share a rank and the next total skips the tied
\* positions ([500, 500, 300] ranks [1, 1, 3])
C1_RankCountsGreaterRows ==
    Rendered =>
        \A i \in ViewRows :
            filtered_data[i].Rank =
                1 + Cardinality({j \in ViewRows :
                        RatLess(filtered_data[i].total, filtered_data[j].total)})

C1_TieThenSkip ==
    /\ Rendered
    /\ \E i, j, k \in ViewRows :
          /\ i # j
          /\ filtered_data[i].total = filtered_data[j].total
          /\ filtered_data[i].Rank = 1
          /\ filtered_data[j].Rank = 1
          /\ RatLess(filtered_data[k].total, filtered_data[i].total)
          /\ filtered_data[k].Rank = 3

\* C2 (as claimed): all rows of the cleaned observation table that share a
\* city name and a year aggregate to exactly one annual_data row of that
\* city and year, whose Total Passengers is the sum of theirs
C2_OneRowPerCityYear ==
    pc = "loaded" =>
        \A i \in 1..Len(df) :
            df[i].city # Null =>
                LET rows == {j \in 1..Len(annual_data) :
                                /\ annual_data[j].city = df[i].city[1]
                                /\ annual_data[j].Year = df[i].Year}
                    same == SelectSeq(df, LAMBDA r : r.city = df[i].city /\ r.Year = df[i].Year)
                IN  /\ Cardinality(rows) = 1
                    /\ \A j \in rows :
                          annual_data[j].total = ColSum(TotalColumn(same))

\* the aggregated fare of a view row is null: no annual_data row of its
\* place in the year scope holds a fare
AggFareNull(annual, year, r) ==
    \A j \in 1..Len(annual) :
        (PlaceKey(annual[j]) = PlaceKey(r) /\ InScope(annual[j], year))
            => annual[j].AvgFare = Null

\* C3: every run of create_map, whatever the filters, returns rows with a
\* non-null Avg Fare, 100 where the aggregated fare was null, leaves the
\* cached annual_data as it was (null fares stay null), and returns the
\* same view when the filters are the same as in the run before
C3_FareDefaultKeepsCache ==
    [][ (pc # "start" /\ pc' = "ready") =>
          /\ annual_data' = annual_data
          /\ \A i \in 1..Len(filtered_data') :
                /\ filtered_data'[i].AvgFare # Null
                /\ AggFareNull(annual_data, selected_year', filtered_data'[i])
                      => filtered_data'[i].AvgFare = <<100, 1>>
          /\ ( /\ pc = "ready"
               /\ selected_year' = selected_year
               /\ selected_topn' = selected_topn
               /\ selected_city' = selected_city )
                => filtered_data' = filtered_data ]_vars

C3_DefaultedAfterSeveralRuns ==
    /\ Rendered
    /\ selected_year # AllYears
    /\ selected_topn # topn_options[1]
    /\ \E i, k \in ViewRows :
          /\ filtered_data[i].AvgFare = <<100, 1>>
          /\ AggFareNull(annual_data, selected_year, filtered_data[i])
          /\ ~AggFareNull(annual_data, selected_year, filtered_data[k])
    /\ \E j \in 1..Len(annual_data) :
          annual_data[j].AvgFare = Null /\ InScope(annual_data[j], selected_year)

\* four consecutive digits somewhere in a text
HasFourDigits(t) ==
    \E i \in 1..Len(t) : i + 3 <= Len(t) /\ \A k \in 0..3 : t[i + k] \in Digit

\* C4 (as claimed): every row of the cleaned observation table has an
\* integer Year between 1000 and 9999, and observations whose Year text
\* holds no run of 4 digits leave no row
C4_YearHasFourDigits ==
    pc = "loaded" =>
        /\ \A i \in 1..Len(df) : df[i].Year \in 1000..9999
        /\ (\A i \in 1..Len(csv_obs) : ~HasFourDigits(csv_obs[i].year)) => df = <<>>

PlaceTotal(annual, r) ==
    ColSum(TotalColumn(SelectSeq(annual, LAMBDA a : PlaceKey(a) = PlaceKey(r))))

AnnualPlaces == {PlaceKey(annual_data[j]) : j \in 1..Len(annual_data)}

ViewPlaces == {PlaceKey(filtered_data[i]) : i \in ViewRows}

\* C5 (as claimed): with no year selected the view holds, for each place
\* (city, latitude, longitude), the sum over all years of its Total
\* Passengers in annual_data, and exactly one row for each place of
\* annual_data
C5_OneRowPerPlace ==
    (Rendered /\ selected_year = AllYears) =>
        /\ \A i \in ViewRows :
              filtered_data[i].total = PlaceTotal(annual_data, filtered_data[i])
        /\ \A k \in AnnualPlaces :
              Cardinality({i \in ViewRows : PlaceKey(filtered_data[i]) = k}) = 1

\* C5 (amended): with no year selected every row of the view holds the sum
\* over all years of its place's Total Passengers and no place has two
\* rows; the view has one row for each place of annual_data when no city is
\* selected and no top-N option is, one row for each place of the selected
\* city when a city is selected, and min(top_n, number of places) rows
\* under a top-N option
C5_PlaceTotalsOverYears ==
    (Rendered /\ selected_year = AllYears) =>
        /\ \A i \in ViewRows :
              filtered_data[i].total = PlaceTotal(annual_data, filtered_data[i])
        /\ Cardinality(ViewPlaces) = Len(filtered_data)
        /\ ViewPlaces \subseteq AnnualPlaces
        /\ IF selected_city # "All Cities"
           THEN ViewPlaces = {k \in AnnualPlaces : k[1] = selected_city}
           ELSE IF TopN = Null THEN ViewPlaces = AnnualPlaces
           ELSE Len(filtered_data) =
                    IF TopN[1] < Cardinality(AnnualPlaces) THEN TopN[1]
                    ELSE Cardinality(AnnualPlaces)

C5_TruncatedAllYears ==
    /\ Rendered
    /\ selected_year = AllYears
    /\ selected_city = "All Cities"
    /\ TopN # Null
    /\ Len(filtered_data) < Cardinality(AnnualPlaces)
    /\ \E i \in ViewRows :
          Cardinality({j \in 1..Len(annual_data) :
                          PlaceKey(annual_data[j]) = PlaceKey(filtered_data[i])}) > 1

\* C6 (as claimed): the rows returned by create_map are ordered by Rank
\* ascending under every combination of filters
C6_RankAscending ==
    Rendered =>
        \A i, j \in ViewRows : i < j => filtered_data[i].Rank <= filtered_data[j].Rank

\* C7: with a city selected the view holds exactly the aggregate rows of
\* that city in the year scope, and no row of another city, whatever the
\* top-N option: no truncation applies
C7_CityViewIsExhaustive ==
    (Rendered /\ selected_city # "All Cities") =>
        LET want == {PlaceKey(annual_data[j]) : j \in {k \in 1..Len(annual_data) :
                        /\ annual_data[k].city = selected_city
                        /\ InScope(annual_data[k], selected_year)}}
        IN  /\ \A i \in ViewRows : filtered_data[i].city = selected_city
            /\ ViewPlaces = want
            /\ Len(filtered_data) = Cardinality(want)

C7_CityLargerThanTopN ==
    /\ Rendered
    /\ selected_city # "All Cities"
    /\ TopN # Null
    /\ Len(filtered_data) > TopN[1]
    /\ \E j \in 1..Len(annual_data) : annual_data[j].city # selected_city

\* an observation has a location row with both coordinates
HasLocation(o, loc) ==
    \E k \in 1..Len(loc) :
        loc[k].code = o.code /\ loc[k].latitude # Null /\ loc[k].longitude # Null

UntruncatedView == script_view(annual_data, selected_year, topn_options[1], "All Cities")

\* C9: under a top-N option and no city filter the view is the first top_n
\* rows of the whole table sorted by Total Passengers descending, and every
\* row carries the Rank it has in the untruncated view of the same year
C9_TruncationKeepsRanks ==
    (Rendered /\ selected_city = "All Cities" /\ TopN # Null) =>
        /\ filtered_data = DataHead(UntruncatedView, TopN[1])
        /\ \A i \in ViewRows : \A j \in 1..Len(UntruncatedView) :
              j > Len(filtered_data) =>
                  ~RatLess(filtered_data[i].total, UntruncatedView[j].total)

C9_TieAtCutOff ==
    /\ Rendered
    /\ selected_city = "All Cities"
    /\ TopN # Null
    /\ Len(filtered_data) = TopN[1]
    /\ Len(UntruncatedView) > TopN[1]
    /\ UntruncatedView[TopN[1] + 1].total = filtered_data[TopN[1]].total
    /\ filtered_data[TopN[1]].Rank > 1

\* C10 (as claimed): for each year the Total Passengers of annual_data sum
\* to the Total Passengers of the cleaned observations that have a city
\* name and a location, whatever the number of matching fare and location
\* rows: each observation counts once
C10_EachObservationOnce ==
    pc = "loaded" =>
        LET clean == CleanObservations(csv_obs)
            used  == SelectSeq(clean, LAMBDA o : o.city # Null /\ HasLocation(o, csv_loc))
        IN  \A y \in {clean[i].Year : i \in 1..Len(clean)} :
                ColSum(TotalColumn(SelectSeq(annual_data, LAMBDA a : a.Year = y)))
                  = ColSum(TotalColumn(SelectSeq(used, LAMBDA o : o.Year = y)))

====
